---- MODULE Spec2Model ----
(***************************************************************************)
(* Model of zendesk.py: four helper functions over the Zendesk REST API.   *)
(* Each caller thread runs one function at a time.  A function that does    *)
(* HTTP is split at the points where a thread can be pre-empted: the call   *)
(* into requests.get (the request goes out), the return of requests.get    *)
(* (the name `response` is bound, or an exception unwinds), and the rest of *)
(* the body (the status check and the return).                              *)
(***************************************************************************)
EXTENDS Integers, Sequences, FiniteSets, TLC

VARIABLES globals, threads

vars == <<globals, threads>>

(* ------------------------------ bounds --------------------------------- *)
NumThreads == 2
MaxLen == 2
NumObjects == 2
MaxTicketId == 2

Threads == 1..NumThreads
MainThread == CHOOSE c \in Threads : \A d \in Threads : c <= d

(* ------------------------------ inputs --------------------------------- *)
Keywords == {"pw", "refund"}
TicketIds == 1..MaxTicketId
Messages == {"hello"}

\* JSON objects of a response body (tickets, comments), told apart by id.
JsonObjects == {[id |-> i] : i \in 1..NumObjects}

RECURSIVE SeqsUpTo(_, _)
SeqsUpTo(S, n) ==
    IF n = 0 THEN {<<>>}
    ELSE LET shorter == SeqsUpTo(S, n - 1)
         IN shorter \cup {Append(s, x) : s \in {t \in shorter : Len(t) = n - 1}, x \in S}

JsonLists == SeqsUpTo(JsonObjects, MaxLen)

\* A response body: text that is not JSON, or a JSON object whose keys
\* "results" and "comments" are each absent (<<>>) or hold a list (<<list>>).
NonJsonBody == [json |-> FALSE, results |-> <<>>, comments |-> <<>>]
EmptyDictBody == [json |-> TRUE, results |-> <<>>, comments |-> <<>>]
ResultsBody(l) == [json |-> TRUE, results |-> <<l>>, comments |-> <<>>]
CommentsBody(l) == [json |-> TRUE, results |-> <<>>, comments |-> <<l>>]

Bodies ==
    {NonJsonBody, EmptyDictBody}
        \cup {ResultsBody(l) : l \in JsonLists}
        \cup {CommentsBody(l) : l \in JsonLists}

\* Status codes the transport can hand back: one of each class, and a 2xx
\* that is not 200.
Statuses == {101, 200, 204, 302, 404, 500}

\* What requests.get produces: a Response object, or an exception of the
\* transport (exc is its class; "" when a Response came back).
HttpResponse(code, body) == [exc |-> "", status_code |-> code, body |-> body]
TransportError(e) == [exc |-> e, status_code |-> 0, body |-> NonJsonBody]

TransportErrors == {TransportError("ConnectionError"), TransportError("Timeout")}
Responses == {HttpResponse(s, b) : s \in Statuses, b \in Bodies}
Outcomes == Responses \cup TransportErrors

FirstObject == CHOOSE o \in JsonObjects : \A p \in JsonObjects : o.id <= p.id
OtherObject == CHOOSE o \in JsonObjects \ {FirstObject} :
                   \A p \in JsonObjects \ {FirstObject} : o.id <= p.id

\* The outcomes drawn while several threads run at once.
ConcOutcomes ==
    { HttpResponse(200, ResultsBody(<<FirstObject, OtherObject>>)),
      HttpResponse(200, CommentsBody(<<OtherObject>>)),
      HttpResponse(404, NonJsonBody),
      TransportError("ConnectionError") }

\* response.json() on a body that is not JSON raises JSONDecodeError: a
\* subclass of RequestException in requests >= 2.27, a plain ValueError
\* before.  The installed version is not pinned.
JsonErrors == {"requests.exceptions.JSONDecodeError", "json.JSONDecodeError"}

(* ------------------------- str() of an integer ------------------------- *)
DigitChars == <<"0", "1", "2", "3", "4", "5", "6", "7", "8", "9">>

RECURSIVE Str(_)
StrDropsZero(n) ==
    IF n < 10 THEN <<DigitChars[n + 1]>>
    ELSE IF n % 10 = 0 THEN Str(n \div 10)
    ELSE Append(Str(n \div 10), DigitChars[(n % 10) + 1])

Str(n) ==
    IF n < 10 THEN <<DigitChars[n + 1]>>
    ELSE Append(Str(n \div 10), DigitChars[(n % 10) + 1])

(* ----------------------------- settings -------------------------------- *)
InitGlobals ==
    [ZENDESK_EMAIL |-> "agent@example.com", api_key |-> "secret",
     zendesk_domain |-> "acme"]

(* ------------------------------ auth() ---------------------------------- *)
B64(s) == <<"b64(">> \o s \o <<")">>

auth(g) == <<"Basic ">> \o B64(<<g.ZENDESK_EMAIL, "/token:", g.api_key>>)

(* ------------------------------ requests ------------------------------- *)
NoArg == [keywords |-> "", ticket_id |-> 0, message |-> ""]

SearchUrl(g) == <<"https://", g.zendesk_domain, ".zendesk.com/api/v2/search.json">>

ReadOpenRequest(g) ==
    [method |-> "GET", url |-> SearchUrl(g),
     headers |-> <<<<"Authorization">> \o auth(g), <<"Content-Type", "application/json">>>>,
     params |-> <<"query", "status:open type:ticket">>,
     auth |-> <<>>]

SearchRequest(g, keywords) ==
    [method |-> "GET", url |-> SearchUrl(g),
     headers |-> <<<<"Authorization">> \o auth(g), <<"Content-Type", "application/json">>>>,
     params |-> <<"query", "status:closed type:ticket description:\"", keywords, "\"">>,
     auth |-> <<>>]

MessagesRequest(g, ticket_id) ==
    [method |-> "GET",
     url |-> <<"https://", g.zendesk_domain, ".zendesk.com/api/v2/tickets/">>
                 \o Str(ticket_id) \o <<"/comments.json">>,
     headers |-> <<>>,
     params |-> <<>>,
     auth |-> <<g.ZENDESK_EMAIL, "/token", g.api_key>>]

ReplyRequest(g, ticket_id, message) ==
    [method |-> "POST",
     url |-> <<"https://api.senders.com/v1/tickets/">> \o Str(ticket_id) \o <<"/reply">>,
     headers |-> <<<<"Authorization", "Bearer ", g.api_key>>,
                   <<"Content-Type", "application/json">>>>,
     params |-> <<"message", message>>,
     auth |-> <<>>]

\* The requests reply_to_senders_ticket sends: none, the POST is commented out.
ReplyPosts(g, ticket_id, message) == <<ReplyRequest(g, ticket_id, message)>>

ReplySends(g, ticket_id, message) == <<>>

(* ------------------------------ results -------------------------------- *)
ReturnList(l) == [kind |-> "list", items |-> l, text |-> <<>>, exc |-> ""]
ReturnStr(t) == [kind |-> "str", items |-> <<>>, text |-> t, exc |-> ""]
ReturnNone == [kind |-> "None", items |-> <<>>, text |-> <<>>, exc |-> ""]
Raise(e) == [kind |-> "raise", items |-> <<>>, text |-> <<>>, exc |-> e]

(* ------------------------------- names --------------------------------- *)
NoLocals == [response |-> <<>>]

\* response = requests.get(...): binds the function's local name.
StoreResponseGlobal(locals, g, r) ==
    [locals |-> locals,
     globals |-> [n \in DOMAIN g \cup {"response"} |->
                     IF n = "response" THEN r ELSE g[n]]]

StoreResponse(locals, g, r) ==
    [locals |-> [locals EXCEPT !.response = <<r>>], globals |-> g]

\* A read of the name `response`: the function's own binding, else the
\* module's, else unbound (<<>>).
LoadResponse(locals, g) ==
    IF locals.response # <<>> THEN locals.response
    ELSE IF "response" \in DOMAIN g THEN <<g["response"]>>
    ELSE <<>>

(* --------------------------- the function bodies ----------------------- *)
\* response.status_code == 200
StatusOk(code) == code = 200

\* l[:1]
SliceAll(l, n) == l

Slice(l, n) == SubSeq(l, 1, IF Len(l) < n THEN Len(l) ELSE n)

\* response.json()['results']
Results(body) == body.results[1]

\* response.json().get('comments', [])
GetCommentsFirst(body) ==
    IF body.comments = <<>> THEN <<>> ELSE Slice(body.comments[1], 1)

GetComments(body) == IF body.comments = <<>> THEN <<>> ELSE body.comments[1]

\* Response.raise_for_status(): HTTPError for 4xx and 5xx, nothing otherwise.
RaiseForStatusOnly5xx(code) == IF code \in 500..599 THEN "HTTPError" ELSE ""

RaiseForStatus(code) == IF code \in 400..599 THEN "HTTPError" ELSE ""

\* except requests.exceptions.RequestException
IsRequestExceptionOnlyHttp(e) == e = "HTTPError"

IsRequestException(e) ==
    e \in {"ConnectionError", "Timeout", "HTTPError",
           "requests.exceptions.JSONDecodeError"}

ReadOpenResult(r, je) ==
    IF StatusOk(r.status_code)
    THEN IF ~r.body.json THEN Raise(je)
         ELSE IF r.body.results = <<>> THEN Raise("KeyError")
         ELSE ReturnList(Slice(Results(r.body), 1))
    ELSE ReturnStr(<<"Error fetching tickets: ">> \o Str(r.status_code))

SearchResultTruncated(r, je) ==
    IF StatusOk(r.status_code)
    THEN IF ~r.body.json THEN Raise(je)
         ELSE IF r.body.results = <<>> THEN Raise("KeyError")
         ELSE ReturnList(Slice(Results(r.body), 1))
    ELSE ReturnStr(<<"Error searching tickets: ">> \o Str(r.status_code))

SearchResult(r, je) ==
    IF StatusOk(r.status_code)
    THEN IF ~r.body.json THEN Raise(je)
         ELSE IF r.body.results = <<>> THEN Raise("KeyError")
         ELSE ReturnList(Results(r.body))
    ELSE ReturnStr(<<"Error searching tickets: ">> \o Str(r.status_code))

ReplyResult(r, je) ==
    IF StatusOk(r.status_code)
    THEN IF ~r.body.json THEN Raise(je) ELSE ReturnList(<<r.body>>)
    ELSE ReturnStr(<<"Error replying to ticket: ">> \o Str(r.status_code))

\* The try block after requests.get returned, and its except clause.
MessagesResult(r, je) ==
    LET raised ==
            IF RaiseForStatus(r.status_code) # "" THEN RaiseForStatus(r.status_code)
            ELSE IF ~r.body.json THEN je
            ELSE ""
    IN IF raised = "" THEN ReturnList(GetComments(r.body))
       ELSE IF IsRequestException(raised) THEN ReturnNone
       ELSE Raise(raised)

\* An exception out of requests.get itself.
MessagesOnGetError(e) == IF IsRequestException(e) THEN ReturnNone ELSE Raise(e)

(* ------------------------------- state --------------------------------- *)
IdleThread ==
    [pc |-> "idle", op |-> "none", arg |-> NoArg, locals |-> NoLocals,
     sent |-> <<>>, recv |-> <<>>, result |-> <<>>]

Init ==
    /\ globals = InitGlobals
    /\ threads = [c \in Threads |-> IdleThread]

\* The thread that has entered a function and issued its request.
Entered(op, arg, req) ==
    [IdleThread EXCEPT !.pc = "get", !.op = op, !.arg = arg, !.sent = <<req>>]

\* A failed attempt is sent again instead of being returned.
FinishOrRetry(th, res) ==
    IF res.kind \in {"str", "None"} /\ Len(th.sent) < 2
    THEN [th EXCEPT !.pc = "get", !.locals = NoLocals,
                    !.sent = Append(th.sent, th.sent[1])]
    ELSE [th EXCEPT !.pc = "done", !.locals = NoLocals, !.result = <<res>>]

\* The thread leaves the function with result res: a returned value or a
\* raised exception.  Its locals are gone.
Finish(th, res) ==
    [th EXCEPT !.pc = "done", !.locals = NoLocals, !.result = <<res>>]

\* requests.get returns o to thread th: an exception unwinds and leaves the
\* function with onError, a Response is bound to `response`.
Got(th, g, o, onError) ==
    LET heard == [th EXCEPT !.recv = Append(@, o)]
    IN IF o.exc # ""
       THEN [thread |-> Finish(heard, onError), globals |-> g]
       ELSE LET ns == StoreResponse(heard.locals, g, o)
            IN [thread |-> [heard EXCEPT !.pc = "check", !.locals = ns.locals],
                globals |-> ns.globals]

(* ---------------------- read_open_zendesk_tickets ---------------------- *)
ReadOpenCall(c) ==
    /\ threads[c].pc = "idle"
    /\ threads' = [threads EXCEPT ![c] =
                      Entered("read_open_zendesk_tickets", NoArg,
                              ReadOpenRequest(globals))]
    /\ UNCHANGED globals

ReadOpenGet(c, o) ==
    /\ threads[c].pc = "get"
    /\ threads[c].op = "read_open_zendesk_tickets"
    /\ LET got == Got(threads[c], globals, o, Raise(o.exc))
       IN /\ threads' = [threads EXCEPT ![c] = got.thread]
          /\ globals' = got.globals

ReadOpenCheck(c) ==
    /\ threads[c].pc = "check"
    /\ threads[c].op = "read_open_zendesk_tickets"
    /\ \E je \in JsonErrors :
          LET r == LoadResponse(threads[c].locals, globals)
          IN threads' = [threads EXCEPT ![c] =
                 Finish(@, IF r = <<>> THEN Raise("NameError")
                           ELSE ReadOpenResult(r[1], je))]
    /\ UNCHANGED globals

(* ---------------------------- search_tickets --------------------------- *)
SearchCall(c, keywords) ==
    /\ threads[c].pc = "idle"
    /\ threads' = [threads EXCEPT ![c] =
                      Entered("search_tickets", [NoArg EXCEPT !.keywords = keywords],
                              SearchRequest(globals, keywords))]
    /\ UNCHANGED globals

SearchGet(c, o) ==
    /\ threads[c].pc = "get"
    /\ threads[c].op = "search_tickets"
    /\ LET got == Got(threads[c], globals, o, Raise(o.exc))
       IN /\ threads' = [threads EXCEPT ![c] = got.thread]
          /\ globals' = got.globals

SearchCheck(c) ==
    /\ threads[c].pc = "check"
    /\ threads[c].op = "search_tickets"
    /\ \E je \in JsonErrors :
          LET r == LoadResponse(threads[c].locals, globals)
          IN threads' = [threads EXCEPT ![c] =
                 Finish(@, IF r = <<>> THEN Raise("NameError")
                           ELSE SearchResult(r[1], je))]
    /\ UNCHANGED globals

(* ------------------------ reply_to_senders_ticket ---------------------- *)
\* No step of this function blocks: the POST is commented out, the message
\* is printed and `response` is read.
ReplyCall(c, ticket_id, message) ==
    /\ threads[c].pc = "idle"
    /\ \E je \in JsonErrors :
          LET r == LoadResponse(NoLocals, globals)
              th == [IdleThread EXCEPT
                        !.op = "reply_to_senders_ticket",
                        !.arg = [NoArg EXCEPT !.ticket_id = ticket_id,
                                              !.message = message],
                        !.sent = ReplySends(globals, ticket_id, message)]
          IN threads' = [threads EXCEPT ![c] =
                 Finish(th, IF r = <<>> THEN Raise("NameError")
                            ELSE ReplyResult(r[1], je))]
    /\ UNCHANGED globals

(* ---------------------- get_zendesk_ticket_messages -------------------- *)
MessagesCall(c, ticket_id) ==
    /\ threads[c].pc = "idle"
    /\ threads' = [threads EXCEPT ![c] =
                      Entered("get_zendesk_ticket_messages",
                              [NoArg EXCEPT !.ticket_id = ticket_id],
                              MessagesRequest(globals, ticket_id))]
    /\ UNCHANGED globals

MessagesGet(c, o) ==
    /\ threads[c].pc = "get"
    /\ threads[c].op = "get_zendesk_ticket_messages"
    /\ LET got == Got(threads[c], globals, o, MessagesOnGetError(o.exc))
       IN /\ threads' = [threads EXCEPT ![c] = got.thread]
          /\ globals' = got.globals

MessagesCheck(c) ==
    /\ threads[c].pc = "check"
    /\ threads[c].op = "get_zendesk_ticket_messages"
    /\ \E je \in JsonErrors :
          LET r == LoadResponse(threads[c].locals, globals)
          IN threads' = [threads EXCEPT ![c] =
                 Finish(@, IF r = <<>> THEN Raise("NameError")
                           ELSE MessagesResult(r[1], je))]
    /\ UNCHANGED globals

(* ------------------------------ the caller ----------------------------- *)
\* The caller takes the result (or the exception); the thread is free again.
Return(c) ==
    /\ threads[c].pc = "done"
    /\ threads' = [threads EXCEPT ![c] = IdleThread]
    /\ UNCHANGED globals

Step(c, O) ==
    \/ ReadOpenCall(c)
    \/ \E o \in O : ReadOpenGet(c, o)
    \/ ReadOpenCheck(c)
    \/ \E k \in Keywords : SearchCall(c, k)
    \/ \E o \in O : SearchGet(c, o)
    \/ SearchCheck(c)
    \/ \E t \in TicketIds, m \in Messages : ReplyCall(c, t, m)
    \/ \E t \in TicketIds : MessagesCall(c, t)
    \/ \E o \in O : MessagesGet(c, o)
    \/ MessagesCheck(c)
    \/ Return(c)

\* One caller, one call at a time, every outcome of the transport.
Next == Step(MainThread, Outcomes)

Spec == Init /\ [][Next]_vars

\* Several callers at once.
NextConc == \E c \in Threads : Step(c, ConcOutcomes)

SpecConc == Init /\ [][NextConc]_vars

(* ============================ properties =============================== *)
ReadOps == {"read_open_zendesk_tickets", "search_tickets"}
HttpOps == ReadOps \cup {"get_zendesk_ticket_messages"}

\* Thread c has left function op.
Done(c, op) == threads[c].pc = "done" /\ threads[c].op = op

\* Thread c has left function op after requests.get gave it a Response.
Answered(c, op) ==
    /\ Done(c, op)
    /\ Len(threads[c].recv) = 1
    /\ threads[c].recv[1].exc = ""

Reply(c) == threads[c].recv[1]
Result(c) == threads[c].result[1]

\* The number a sequence of decimal digits denotes; -1 when it is not one.
RECURSIVE ParseDecimal(_)
ParseDecimal(t) ==
    IF t = <<>> THEN -1
    ELSE IF \A d \in 0..9 : DigitChars[d + 1] # t[Len(t)] THEN -1
    ELSE LET last == CHOOSE d \in 0..9 : DigitChars[d + 1] = t[Len(t)]
             front == SubSeq(t, 1, Len(t) - 1)
         IN IF front = <<>> THEN last
            ELSE IF ParseDecimal(front) < 0 THEN -1
            ELSE ParseDecimal(front) * 10 + last

ErrorPrefix(op) ==
    IF op = "read_open_zendesk_tickets" THEN "Error fetching tickets: "
    ELSE "Error searching tickets: "

\* C1: whenever read_open_zendesk_tickets or search_tickets got a response
\* whose status is not 200, it returned a string made of the fixed message
\* and the decimal digits of that status, and no element of the body.
C1_ErrorStringCarriesStatus ==
    \A c \in Threads : \A op \in ReadOps :
        (Answered(c, op) /\ Reply(c).status_code # 200) =>
            /\ Result(c).kind = "str"
            /\ Result(c).items = <<>>
            /\ Len(Result(c).text) > 1
            /\ Result(c).text[1] = ErrorPrefix(op)
            /\ ParseDecimal(Tail(Result(c).text)) = Reply(c).status_code

C1_Witness ==
    \E c \in Threads :
        /\ Answered(c, "search_tickets")
        /\ Reply(c).status_code = 500
        /\ Reply(c).body.results # <<>>
        /\ Len(Reply(c).body.results[1]) = MaxLen
        /\ Result(c).kind = "str"

\* C2: whenever read_open_zendesk_tickets got a 200 whose body holds a
\* results list, it returned the empty list for an empty results list and
\* otherwise the list of the first element alone.
C2_ReadOpenReturnsFirstOnly ==
    \A c \in Threads :
        (/\ Answered(c, "read_open_zendesk_tickets")
         /\ Reply(c).status_code = 200
         /\ Reply(c).body.json
         /\ Reply(c).body.results # <<>>) =>
            LET l == Reply(c).body.results[1]
            IN /\ Result(c).kind = "list"
               /\ Result(c).items = IF l = <<>> THEN <<>> ELSE <<l[1]>>

C2_Witness ==
    \E c \in Threads :
        /\ Answered(c, "read_open_zendesk_tickets")
        /\ Reply(c).status_code = 200
        /\ Reply(c).body.results # <<>>
        /\ Len(Reply(c).body.results[1]) > 1
        /\ Result(c).kind = "list"
        /\ Len(Result(c).items) = 1

\* C3: whenever search_tickets got a 200 whose body holds a results list, it
\* returned that list whole: same elements, same order.
C3_SearchReturnsAll ==
    \A c \in Threads :
        (/\ Answered(c, "search_tickets")
         /\ Reply(c).status_code = 200
         /\ Reply(c).body.json
         /\ Reply(c).body.results # <<>>) =>
            /\ Result(c).kind = "list"
            /\ Result(c).items = Reply(c).body.results[1]

C3_Witness ==
    \E c \in Threads :
        /\ Answered(c, "search_tickets")
        /\ threads[c].arg.keywords = "pw"
        /\ Reply(c).status_code = 200
        /\ Reply(c).body.results # <<>>
        /\ Len(Reply(c).body.results[1]) > 1
        /\ Reply(c).body.results[1][1] # Reply(c).body.results[1][2]
        /\ Result(c).items = Reply(c).body.results[1]

\* C4: whenever the GET of get_zendesk_ticket_messages failed in the
\* transport, the function returned None and raised nothing.
C4_MessagesNetworkFailureGivesNone ==
    \A c \in Threads :
        (/\ Done(c, "get_zendesk_ticket_messages")
         /\ Len(threads[c].recv) = 1
         /\ threads[c].recv[1] \in TransportErrors) =>
            Result(c) = ReturnNone

C4_Witness ==
    \E c \in Threads :
        /\ Done(c, "get_zendesk_ticket_messages")
        /\ threads[c].arg.ticket_id = MaxTicketId
        /\ threads[c].recv = <<TransportError("Timeout")>>
        /\ Result(c).kind = "None"

\* C5: whenever get_zendesk_ticket_messages got a 2xx with a JSON object as
\* body, it returned the empty list when the object has no "comments" key and
\* otherwise the whole list under it, in the same order.
C5_MessagesReturnsComments ==
    \A c \in Threads :
        (/\ Answered(c, "get_zendesk_ticket_messages")
         /\ Reply(c).status_code \in 200..299
         /\ Reply(c).body.json) =>
            /\ Result(c).kind = "list"
            /\ Result(c).items =
                   IF Reply(c).body.comments = <<>> THEN <<>>
                   ELSE Reply(c).body.comments[1]

C5_Witness ==
    \E c \in Threads :
        /\ Answered(c, "get_zendesk_ticket_messages")
        /\ Reply(c).status_code = 200
        /\ Reply(c).body.comments # <<>>
        /\ Len(Reply(c).body.comments[1]) > 1
        /\ Reply(c).body.comments[1][1] # Reply(c).body.comments[1][2]
        /\ Result(c).items = Reply(c).body.comments[1]

C7_NoCallRaises ==
    \A c \in Threads :
        threads[c].pc = "done" => Result(c).kind # "raise"

\* C8 as claimed: whenever get_zendesk_ticket_messages got a response whose
\* status is not 2xx, it returned None.
C8_EveryNon2xxGivesNone ==
    \A c \in Threads :
        (/\ Answered(c, "get_zendesk_ticket_messages")
         /\ Reply(c).status_code \notin 200..299) =>
            Result(c) = ReturnNone

\* C8 amended: whenever get_zendesk_ticket_messages got a 4xx or 5xx it
\* returned None; a 1xx or 3xx is not raised, and with a JSON object as body
\* the function returned the list under "comments" (empty when absent).
C8_ClientAndServerErrorsGiveNone ==
    \A c \in Threads :
        Answered(c, "get_zendesk_ticket_messages") =>
            /\ Reply(c).status_code \in 400..599 => Result(c) = ReturnNone
            /\ (Reply(c).status_code \in 100..199 \cup 300..399 /\ Reply(c).body.json) =>
                   Result(c) = ReturnList(IF Reply(c).body.comments = <<>> THEN <<>>
                                          ELSE Reply(c).body.comments[1])

C8_Witness ==
    \E c \in Threads :
        /\ Answered(c, "get_zendesk_ticket_messages")
        /\ Reply(c).status_code = 404
        /\ Reply(c).body.comments # <<>>
        /\ Reply(c).body.comments[1] # <<>>
        /\ Result(c).kind = "None"

\* C9: a call of one of the three functions that do HTTP has sent exactly one
\* request from the moment it is in requests.get until it is over, and has
\* been given at most one outcome.
C9_SingleRoundTrip ==
    \A c \in Threads :
        (threads[c].pc # "idle" /\ threads[c].op \in HttpOps) =>
            /\ Len(threads[c].sent) = 1
            /\ Len(threads[c].recv) <= 1
            /\ threads[c].pc \in {"check", "done"} => Len(threads[c].recv) = 1

C9_Witness ==
    \E c \in Threads :
        /\ Done(c, "read_open_zendesk_tickets")
        /\ threads[c].recv = <<HttpResponse(500, NonJsonBody)>>
        /\ Result(c).kind = "str"
        /\ Len(threads[c].sent) = 1

\* What a finished call returns when it runs alone: a function of its own
\* arguments and of the one outcome requests.get gave it.
AloneResults(th) ==
    IF th.op = "reply_to_senders_ticket" THEN {Raise("NameError")}
    ELSE IF th.recv[1].exc # ""
         THEN IF th.op = "get_zendesk_ticket_messages"
              THEN {MessagesOnGetError(th.recv[1].exc)}
              ELSE {Raise(th.recv[1].exc)}
    ELSE IF th.op = "read_open_zendesk_tickets"
         THEN {ReadOpenResult(th.recv[1], je) : je \in JsonErrors}
    ELSE IF th.op = "search_tickets"
         THEN {SearchResult(th.recv[1], je) : je \in JsonErrors}
    ELSE {MessagesResult(th.recv[1], je) : je \in JsonErrors}

\* C10: under every interleaving of concurrent calls the module's names keep
\* their values, a thread's `response` is the one its own request got, and a
\* finished call has the result it has when run alone on its own arguments
\* and its own response.
C10_CallsDoNotInterfere ==
    /\ globals = InitGlobals
    /\ \A c \in Threads :
          /\ threads[c].pc = "check" =>
                LoadResponse(threads[c].locals, globals) = threads[c].recv
          /\ threads[c].pc = "done" => Result(c) \in AloneResults(threads[c])

C10_Witness ==
    \E c, d \in Threads :
        /\ c # d
        /\ Done(c, "search_tickets")
        /\ Done(d, "get_zendesk_ticket_messages")
        /\ Result(c).kind = "list"
        /\ Result(d).kind = "None"

====
